---------------------------- MODULE Spec2Model ----------------------------
(***************************************************************************)
(* A model of the SEGI document-ingestion pipeline (src/main.py,           *)
(* src/helpers.py): JSON recovery from a model response, list balancing    *)
(* by item_id, metadata enrichment, the /generate handler and the          *)
(* /extract handler's flattening and text normalisation, the /split        *)
(* handler step by step, the /insert handler and its transaction, the      *)
(* file-name helpers, and two concurrent /extract invocations.             *)
(*                                                                         *)
(* Python values are records [t, s, v]: t is the type tag, s the payload   *)
(* of a scalar, v the children of a container.                             *)
(***************************************************************************)
EXTENDS Integers, Sequences, FiniteSets, TLC

VARIABLES
    \* ---- balance_lists_by_item_id called on objects of a heap ----
    heap,       \* object id -> contents of the list object with that id
    data,       \* the argument: entries [k, ref, val] in dict order
    balanced,   \* the value returned by the first call (entries)
    bstatus,    \* "idle" | "returned" | "KeyError" | "TypeError"
    balanced2,  \* the value returned by calling again on `balanced`
    bstatus2,   \* outcome of the second call
    muts,       \* how many times the caller changed a returned list
    \* ---- _extract_json_from_text ----
    text,       \* the model's response, a sequence of tokens
    ext_data,   \* the value _extract_json_from_text returned
    jstatus,    \* "idle" | "done"
    \* ---- the /generate handler ----
    results,    \* the results area: file name -> chunk table
    tables,     \* the tables area: file name -> generated table
    glast,      \* the last /generate invocation and its response
    \* ---- the /extract handler ----
    pages,      \* the pages area: file name -> page file
    chunks,     \* the chunks the extraction service returns for the page
    elast,      \* the last /extract invocation and its response
    \* ---- the /split handler ----
    files,      \* the incoming area: file name -> document (its pages)
    archive,    \* the archive location: file name -> document
    spl,        \* the /split invocation in progress, or the last one
    \* ---- the /insert handler ----
    db,         \* the committed rows of tbl_captura_ia
    txn,        \* the rows inserted by the open transaction
    ins,        \* the /insert invocation in progress, or the last one
    \* ---- the file-name helpers ----
    nm,         \* a stage file name and what the helpers derive from it
    \* ---- concurrent /extract invocations ----
    race        \* invocation -> its position and what it wrote

balVars == <<heap, data, balanced, bstatus, balanced2, bstatus2, muts>>
jsonVars == <<text, ext_data, jstatus>>
genVars == <<results, tables, glast>>
extVars == <<pages, chunks, elast>>
splitVars == <<files, archive, spl>>
loadVars == <<db, txn, ins>>
newVars == <<splitVars, loadVars, nm, race>>
vars == <<balVars, jsonVars, genVars, extVars, newVars>>

---------------------------------------------------------------------------
(* Bounds *)

MaxLen == 3
MaxMuts == 1
MaxTextLen == 3
MaxRows == 2
MaxChunks == 2
MaxPages == 2
MaxDbRows == 2
MaxBase == 3

---------------------------------------------------------------------------
(* Python values *)

None == [t |-> "none", s |-> "", v |-> <<>>]
Str(a) == [t |-> "str", s |-> a, v |-> <<>>]
Num(a) == [t |-> "num", s |-> a, v |-> <<>>]
True == [t |-> "bool", s |-> "true", v |-> <<>>]
List(items) == [t |-> "list", s |-> "", v |-> items]
Pair(k, val) == [t |-> "pair", s |-> k, v |-> <<val>>]
Dict(pairs) == [t |-> "dict", s |-> "", v |-> pairs]

Keys(d) == {d.v[i].s : i \in 1..Len(d.v)}
Get(d, k) == (d.v[CHOOSE i \in 1..Len(d.v) : d.v[i].s = k]).v[1]

Range(q) == {q[i] : i \in 1..Len(q)}

\* All sequences over S of length at most n.
SeqsUpTo(S, n) == UNION {[1..m -> S] : m \in 0..n}

---------------------------------------------------------------------------
(* balance_lists_by_item_id, src/helpers.py:358-394 *)

placeholder == Str("")

\* A padding that never repeats a constant value.
PadValue_AlwaysPlaceholder(lst) == placeholder

\* helpers.py:379-384: the value a short list is padded with.
PadValue(lst) ==
    IF Len(lst) = 0 THEN placeholder
    ELSE IF \A i \in 1..Len(lst) : lst[i] = lst[1] THEN lst[1]
    ELSE placeholder

\* A padding that is one element too long.
Repeat_OneMore(x, n) == [i \in 1..(n + 1) |-> x]

\* helpers.py:386: [pad_value] * (target_len - cur_len)
Repeat(x, n) == [i \in 1..n |-> x]

\* A balancing that pads but never truncates.
BalancedList_NoTruncate(lst, target_len) ==
    IF Len(lst) < target_len
    THEN lst \o Repeat(PadValue(lst), target_len - Len(lst))
    ELSE lst

\* helpers.py:375-392: one list brought to target_len.
BalancedList(lst, target_len) ==
    IF Len(lst) < target_len
    THEN lst \o Repeat(PadValue(lst), target_len - Len(lst))
    ELSE IF Len(lst) > target_len
    THEN SubSeq(lst, 1, target_len)
    ELSE lst

Raise(e) == [status |-> e, value |-> None]
Return(x) == [status |-> "returned", value |-> x]

\* helpers.py:365: `"item_id" not in data`, for whatever the caller passes.
\* A dict is searched by key, a list, tuple or set by element, a str by
\* substring (the
\* payloads of the model hold "item_id" only as the whole string); any other
\* value is not iterable.
ContainsItemId(d) ==
    CASE d.t = "dict" -> "item_id" \in Keys(d)
      [] d.t \in {"list", "tuple", "set"} -> Str("item_id") \in Range(d.v)
      [] d.t = "str" -> d.s = "item_id"
      [] OTHER -> FALSE

\* helpers.py:358-394 on values.  len() of an item_id that has no length
\* and a non-list value met by the loop both raise TypeError.
\* A lenient variant: a dict without item_id is passed through as it is.
balance_lists_by_item_id_Lenient(d) ==
    IF d.t \notin {"dict", "list", "tuple", "set", "str"} THEN Raise("TypeError")
    ELSE IF d.t = "dict" /\ ~ContainsItemId(d) THEN Return(d)
    ELSE IF ~ContainsItemId(d) THEN Raise("KeyError")
    ELSE IF d.t # "dict" THEN Raise("TypeError")
    ELSE IF \E i \in 1..Len(d.v) : d.v[i].v[1].t # "list" THEN Raise("TypeError")
    ELSE LET target_len == Len(Get(d, "item_id").v)
         IN  Return(Dict([i \in 1..Len(d.v) |->
                 Pair(d.v[i].s,
                      List(BalancedList(d.v[i].v[1].v, target_len)))]))

balance_lists_by_item_id(d) ==
    IF d.t \notin {"dict", "list", "tuple", "set", "str"} THEN Raise("TypeError")
    ELSE IF ~ContainsItemId(d) THEN Raise("KeyError")
    ELSE IF d.t # "dict" THEN Raise("TypeError")
    ELSE IF \E i \in 1..Len(d.v) : d.v[i].v[1].t # "list" THEN Raise("TypeError")
    ELSE LET target_len == Len(Get(d, "item_id").v)
         IN  Return(Dict([i \in 1..Len(d.v) |->
                 Pair(d.v[i].s,
                      List(BalancedList(d.v[i].v[1].v, target_len)))]))

---------------------------------------------------------------------------
(* The same call on list objects: which lists of the result are new objects *)

\* An entry of a dict whose values live on the heap: ref > 0 names a list
\* object, ref = 0 means the non-list value val.
Entry(k, ref, val) == [k |-> k, ref |-> ref, val |-> val]

ValueOf(h, entries) ==
    Dict([i \in 1..Len(entries) |->
        Pair(entries[i].k,
             IF entries[i].ref > 0 THEN List(h[entries[i].ref])
             ELSE entries[i].val)])

\* A copy that shares the list objects of its argument.
ShallowCopy(h, entries) == [heap |-> h, entries |-> entries]

RECURSIVE CopyFrom(_, _, _, _)
CopyFrom(h, entries, i, acc) ==
    IF i > Len(entries) THEN [heap |-> h, entries |-> acc]
    ELSE IF entries[i].ref > 0
         THEN CopyFrom(Append(h, h[entries[i].ref]), entries, i + 1,
                       Append(acc, Entry(entries[i].k, Len(h) + 1, None)))
         ELSE CopyFrom(h, entries, i + 1, Append(acc, entries[i]))

\* helpers.py:369: balanced = deepcopy(data): every list is a new object.
deepcopy(h, entries) == CopyFrom(h, entries, 1, <<>>)

\* helpers.py:371-392: the loop reads the lists of `src` (data) and rebinds
\* the keys of `bal` whose list is shorter or longer than target_len to a
\* new list object; a list of the right length keeps the copy's object.
RECURSIVE Rebind(_, _, _, _, _)
Rebind(h, src, bal, target_len, i) ==
    IF i > Len(src) THEN [heap |-> h, entries |-> bal]
    ELSE LET lst == h[src[i].ref]
         IN  IF Len(lst) # target_len
             THEN Rebind(Append(h, BalancedList(lst, target_len)), src,
                         [bal EXCEPT ![i] = Entry(src[i].k, Len(h) + 1, None)],
                         target_len, i + 1)
             ELSE Rebind(h, src, bal, target_len, i + 1)

\* One call of balance_lists_by_item_id on the dict `entries`:
\* [status, heap, entries].
BalanceCall(h, entries) ==
    LET r == balance_lists_by_item_id(ValueOf(h, entries))
    IN  IF r.status = "returned"
        THEN LET c == deepcopy(h, entries)
                 target_len == Len(Get(ValueOf(h, entries), "item_id").v)
                 out == Rebind(c.heap, entries, c.entries, target_len, 1)
             IN  [status |-> "returned", heap |-> out.heap, entries |-> out.entries]
        ELSE [status |-> r.status, heap |-> h, entries |-> <<>>]

\* The first call, on the caller's data.
Call ==
    /\ bstatus = "idle"
    /\ LET r == BalanceCall(heap, data)
       IN  /\ bstatus' = r.status
           /\ heap' = r.heap
           /\ balanced' = r.entries
    /\ UNCHANGED <<data, balanced2, bstatus2, muts>>
    /\ UNCHANGED <<jsonVars, genVars, extVars, newVars>>

\* The caller applies the function to its own result.
CallAgain ==
    /\ bstatus = "returned"
    /\ bstatus2 = "idle"
    /\ LET r == BalanceCall(heap, balanced)
       IN  /\ bstatus2' = r.status
           /\ heap' = r.heap
           /\ balanced2' = r.entries
    /\ UNCHANGED <<data, balanced, bstatus, muts>>
    /\ UNCHANGED <<jsonVars, genVars, extVars, newVars>>

\* What a caller can do to a list it was returned.
ListChanges(lst) ==
    {Append(lst, Str("z"))}
        \cup (IF Len(lst) > 0
              THEN {[lst EXCEPT ![1] = Str("z")], SubSeq(lst, 1, Len(lst) - 1)}
              ELSE {})

\* The caller changes one of the returned lists in place.
Mutate ==
    /\ bstatus = "returned"
    /\ bstatus2 = "idle"
    /\ muts < MaxMuts
    /\ \E i \in 1..Len(balanced) :
         \E new \in ListChanges(heap[balanced[i].ref]) :
            heap' = [heap EXCEPT ![balanced[i].ref] = new]
    /\ muts' = muts + 1
    /\ UNCHANGED <<data, balanced, bstatus, balanced2, bstatus2>>
    /\ UNCHANGED <<jsonVars, genVars, extVars, newVars>>

IdleBalance ==
    /\ heap = <<>>
    /\ data = <<>>
    /\ balanced = <<>>
    /\ bstatus = "idle"
    /\ balanced2 = <<>>
    /\ bstatus2 = "idle"
    /\ muts = 0

IdleJson ==
    /\ text = <<>>
    /\ ext_data = None
    /\ jstatus = "idle"

NoCall ==
    [filename |-> <<>>, status |-> 0, reached |-> FALSE, ext |-> None,
     src |-> <<>>, out |-> <<>>]

NoExtract == [filename |-> <<>>, status |-> 0, chunks |-> <<>>, out |-> <<>>]

NoSplit ==
    [pc |-> "idle", filename |-> <<>>, input |-> <<>>, written |-> 0,
     num_pages |-> 0, status |-> 0]
IdleSplit ==
    /\ files = <<>>
    /\ archive = <<>>
    /\ spl = NoSplit

NoInsert ==
    [pc |-> "idle", filename |-> <<>>, src |-> <<>>, rows |-> <<>>,
     cols |-> <<>>, before |-> <<>>, done |-> 0, status |-> 0,
     rows_inserted |-> 0]
IdleLoad ==
    /\ db = <<>>
    /\ txn = <<>>
    /\ ins = NoInsert

IdleNames == nm = <<>>
IdleRace == race = <<>>

IdleExt ==
    /\ pages = <<>>
    /\ chunks = <<>>
    /\ elast = NoExtract

IdleGen ==
    /\ results = <<>>
    /\ tables = <<>>
    /\ glast = NoCall

\* Inputs: a dict with any of the keys below, in this iteration order, each
\* value a list of at most MaxLen atoms or a value that is not a list.
KeyOrder == <<"x", "item_id">>
Atoms == {Str("a"), Str("b")}
Choices ==
    {[c |-> "absent", l |-> <<>>], [c |-> "scalar", l |-> <<>>]}
        \cup {[c |-> "list", l |-> l] : l \in SeqsUpTo(Atoms, MaxLen)}

IndexOf(q, x) == CHOOSE i \in 1..Len(q) : q[i] = x

InitBalance ==
    \E f \in [Range(KeyOrder) -> Choices] :
        LET pk == SelectSeq(KeyOrder, LAMBDA k : f[k].c # "absent")
            lk == SelectSeq(pk, LAMBDA k : f[k].c = "list")
        IN  /\ heap = [j \in 1..Len(lk) |-> f[lk[j]].l]
            /\ data = [i \in 1..Len(pk) |->
                         IF f[pk[i]].c = "list"
                         THEN Entry(pk[i], IndexOf(lk, pk[i]), None)
                         ELSE Entry(pk[i], 0, Str("s"))]
            /\ balanced = <<>>
            /\ bstatus = "idle"
            /\ balanced2 = <<>>
            /\ bstatus2 = "idle"
            /\ muts = 0
            /\ IdleJson
            /\ IdleGen
            /\ IdleExt
            /\ IdleSplit /\ IdleLoad /\ IdleNames /\ IdleRace

NextBalance == Call \/ CallAgain \/ Mutate

SpecBalance == InitBalance /\ [][NextBalance]_vars

---------------------------------------------------------------------------
(* _extract_json_from_text, src/helpers.py:321-355 *)

\* A response is a sequence of tokens, each a lexical unit of the text:
\* brackets, punctuation, the two quote characters, words, white space,
\* "fence" (three backticks) and the tag json.
WS == {" ", "\n"}
Alphabet ==
    {"{", "}", "[", "]", ",", ":", "\"", "'", "1", "true",
     "s", "item_id", "page", "Sure", "fence", "json"} \cup WS

Fail == [ok |-> FALSE, val |-> None, rest |-> <<>>]
Ok(val, rest) == [ok |-> TRUE, val |-> val, rest |-> rest]

Set(items) == [t |-> "set", s |-> "", v |-> items]
Tuple(items) == [t |-> "tuple", s |-> "", v |-> items]

\* A lexeme: a string literal (k = "dq" or "sq", s its characters), any
\* other token (k = "tok"), or a string literal that is never closed or
\* holds a raw newline (k = "bad").
Lexeme(k, str) == [k |-> k, s |-> str]
Is(l, c) == l.k = "tok" /\ l.s = c
IsString(l) == l.k \in {"dq", "sq"}

\* The lexemes of toks: white space between them is skipped and a quote
\* opens a string literal that runs to the next quote of the same kind.
\* q is the open quote ("" outside a literal), str the characters read.
RECURSIVE Lex(_, _, _, _)
Lex(toks, q, str, acc) ==
    IF toks = <<>>
    THEN IF q = "" THEN acc ELSE Append(acc, Lexeme("bad", str))
    ELSE LET h == Head(toks)
         IN  IF q = ""
             THEN IF h \in WS THEN Lex(Tail(toks), "", "", acc)
                  ELSE IF h \in {"\"", "'"} THEN Lex(Tail(toks), h, "", acc)
                  ELSE Lex(Tail(toks), "", "", Append(acc, Lexeme("tok", h)))
             ELSE IF h = q
                  THEN Lex(Tail(toks), "", "",
                           Append(acc, Lexeme(IF q = "'" THEN "sq" ELSE "dq", str)))
                  ELSE IF h = "\n" THEN Append(acc, Lexeme("bad", str))
                  ELSE Lex(Tail(toks), q, str \o h, acc)

Hashable(x) == x.t \in {"none", "str", "num", "bool"}

\* dict(pairs): a repeated key keeps its first place and its last value.
RECURSIVE DictOf(_, _)
DictOf(kvs, acc) ==
    IF kvs = <<>> THEN Dict(acc)
    ELSE LET k == Head(kvs)[1].s
             val == Head(kvs)[2]
         IN  IF \E i \in 1..Len(acc) : acc[i].s = k
             THEN DictOf(Tail(kvs),
                         [i \in 1..Len(acc) |->
                             IF acc[i].s = k THEN Pair(k, val) ELSE acc[i]])
             ELSE DictOf(Tail(kvs), Append(acc, Pair(k, val)))

RECURSIVE Distinct(_, _)
Distinct(items, acc) ==
    IF items = <<>> THEN acc
    ELSE Distinct(Tail(items),
                  IF Head(items) \in Range(acc) THEN acc
                  ELSE Append(acc, Head(items)))

\* The container built when its closing token is read.  A dict key or a
\* set element that is not hashable makes ast.literal_eval raise.
Finish(kind, acc, rest) ==
    CASE kind = "list" -> Ok(List(acc), rest)
      [] kind = "tuple" -> Ok(Tuple(acc), rest)
      [] kind = "dict" ->
            IF \A i \in 1..Len(acc) : Hashable(acc[i][1])
            THEN Ok(DictOf(acc, <<>>), rest) ELSE Fail
      [] OTHER ->
            IF \A i \in 1..Len(acc) : Hashable(acc[i])
            THEN Ok(Set(Distinct(acc, <<>>)), rest) ELSE Fail

\* Adjacent string literals of a Python expression are one string.
RECURSIVE StrRun(_, _)
StrRun(ls, acc) ==
    IF ls # <<>> /\ IsString(Head(ls))
    THEN StrRun(Tail(ls), acc \o Head(ls).s)
    ELSE Ok(Str(acc), ls)

\* One value read from the front of the lexemes ls, by json.loads (mode
\* "json") or by ast.literal_eval (mode "py").  The literal parse also
\* takes single-quoted and adjacent strings, a trailing comma, any
\* hashable dict key and set displays; it rejects true.
RECURSIVE ParseValue(_, _)
RECURSIVE ParseItems(_, _, _, _, _)
ParseValue(ls, mode) ==
    IF ls = <<>> THEN Fail
    ELSE LET h == Head(ls)
             rest == Tail(ls)
         IN  CASE Is(h, "1") -> Ok(Num("1"), rest)
               [] Is(h, "true") -> IF mode = "json" THEN Ok(True, rest) ELSE Fail
               [] IsString(h) ->
                    IF mode = "py" THEN StrRun(ls, "")
                    ELSE IF h.k = "dq" THEN Ok(Str(h.s), rest)
                    ELSE Fail
               [] Is(h, "[") -> ParseItems(rest, mode, "list", "first", <<>>)
               [] Is(h, "{") ->
                    IF mode = "json" \/ rest = <<>> \/ Is(Head(rest), "}")
                    THEN ParseItems(rest, mode, "dict", "first", <<>>)
                    ELSE LET first == ParseValue(rest, mode)
                         IN  IF first.ok /\ first.rest # <<>>
                                         /\ Is(Head(first.rest), ":")
                             THEN ParseItems(rest, mode, "dict", "first", <<>>)
                             ELSE ParseItems(rest, mode, "set", "first", <<>>)
               [] OTHER -> Fail

\* The items of a container up to its closing token.  state is "first"
\* (nothing read), "value" (an item was just read) or "comma".
ParseItems(ls, mode, kind, state, acc) ==
    LET close == CASE kind = "list" -> "]"
                   [] kind = "tuple" -> "<end>"
                   [] OTHER -> "}"
    IN  IF ls = <<>> THEN Fail
        ELSE IF Is(Head(ls), close)
                /\ \/ state = "value"
                   \/ state = "first" /\ kind # "set"
                   \/ state = "comma" /\ mode = "py"
        THEN Finish(kind, acc, Tail(ls))
        ELSE IF state = "value"
        THEN IF Is(Head(ls), ",")
             THEN ParseItems(Tail(ls), mode, kind, "comma", acc)
             ELSE Fail
        ELSE IF kind = "dict"
        THEN LET k == ParseValue(ls, mode)
             IN  IF ~k.ok \/ k.rest = <<>> THEN Fail
                 ELSE IF ~Is(Head(k.rest), ":") THEN Fail
                 ELSE IF mode = "json" /\ k.val.t # "str" THEN Fail
                 ELSE LET val == ParseValue(Tail(k.rest), mode)
                      IN  IF ~val.ok THEN Fail
                          ELSE ParseItems(val.rest, mode, kind, "value",
                                          Append(acc, <<k.val, val.val>>))
        ELSE LET e == ParseValue(ls, mode)
             IN  IF ~e.ok THEN Fail
                 ELSE ParseItems(e.rest, mode, kind, "value", Append(acc, e.val))

\* json.loads(s): one JSON value and nothing after it.
Loads(toks) ==
    LET r == ParseValue(Lex(toks, "", "", <<>>), "json")
    IN  IF r.ok /\ r.rest = <<>> THEN Ok(r.val, <<>>) ELSE Fail

\* ast.literal_eval(s): one Python literal, or several separated by commas
\* (a tuple).
LiteralEval(toks) ==
    LET r == ParseValue(Lex(toks, "", "", <<>>), "py")
    IN  IF ~r.ok THEN Fail
        ELSE IF r.rest = <<>> THEN Ok(r.val, <<>>)
        ELSE IF ~Is(Head(r.rest), ",") THEN Fail
        ELSE LET t == ParseItems(Append(Tail(r.rest), Lexeme("tok", "<end>")),
                                 "py", "tuple", "comma", <<r.val>>)
             IN  IF t.ok /\ t.rest = <<>> THEN Ok(t.val, <<>>) ELSE Fail

\* str.strip()
RECURSIVE LStrip(_)
LStrip(toks) ==
    IF toks # <<>> /\ Head(toks) \in WS THEN LStrip(Tail(toks)) ELSE toks
RECURSIVE RStrip(_)
RStrip(toks) ==
    IF toks # <<>> /\ toks[Len(toks)] \in WS
    THEN RStrip(SubSeq(toks, 1, Len(toks) - 1)) ELSE toks
Strip(toks) == RStrip(LStrip(toks))

\* str.find(c) and str.rfind(c), 1-based; 0 when c does not occur (-1 in
\* the code).
RECURSIVE FindFrom(_, _, _)
FindFrom(toks, c, i) ==
    IF i > Len(toks) THEN 0
    ELSE IF toks[i] = c THEN i
    ELSE FindFrom(toks, c, i + 1)
Find(toks, c) == FindFrom(toks, c, 1)

RECURSIVE RFindFrom(_, _, _)
RFindFrom(toks, c, i) ==
    IF i < 1 THEN 0
    ELSE IF toks[i] = c THEN i
    ELSE RFindFrom(toks, c, i - 1)
RFind(toks, c) == RFindFrom(toks, c, Len(toks))

Min(S) == CHOOSE x \in S : \A y \in S : x <= y
Max(S) == CHOOSE x \in S : \A y \in S : x >= y

\* helpers.py:326: re.search(r"```(json)?\n?(.*?)```", text, re.DOTALL):
\* the first fence that has a fence after it; group(2) is what lies between
\* the two, after an optional json tag and an optional newline.
FenceMatch(toks) ==
    LET open == Find(toks, "fence")
        close == IF open = 0 THEN 0 ELSE FindFrom(toks, "fence", open + 1)
    IN  IF close = 0 THEN [found |-> FALSE, group2 |-> <<>>]
        ELSE LET inner == SubSeq(toks, open + 1, close - 1)
                 a == IF inner # <<>> /\ Head(inner) = "json"
                      THEN Tail(inner) ELSE inner
                 b == IF a # <<>> /\ Head(a) = "\n" THEN Tail(a) ELSE a
             IN  [found |-> TRUE, group2 |-> b]

\* A candidate that ends at the first closing bracket.
BracketCandidate_FirstClose(json_str) ==
    LET start_candidates == {Find(json_str, c) : c \in {"{", "["}} \ {0}
        end_candidates == {Find(json_str, c) : c \in {"}", "]"}} \ {0}
    IN  IF start_candidates # {} /\ end_candidates # {}
        THEN [found |-> TRUE,
              candidate |-> SubSeq(json_str, Min(start_candidates),
                                   Min(end_candidates))]
        ELSE [found |-> FALSE, candidate |-> <<>>]

\* helpers.py:340-345: the candidate between the first opening and the
\* last closing bracket of json_str; found is FALSE without one of each.
BracketCandidate(json_str) ==
    LET start_candidates == {Find(json_str, c) : c \in {"{", "["}} \ {0}
        end_candidates == {RFind(json_str, c) : c \in {"}", "]"}} \ {0}
    IN  IF start_candidates # {} /\ end_candidates # {}
        THEN [found |-> TRUE,
              candidate |-> SubSeq(json_str, Min(start_candidates),
                                   Max(end_candidates))]
        ELSE [found |-> FALSE, candidate |-> <<>>]

\* helpers.py:321-355
ExtractJsonFromText(toks) ==
    IF toks = <<>> THEN None
    ELSE LET match == FenceMatch(toks)
             json_str == Strip(IF match.found THEN match.group2 ELSE toks)
             direct == Loads(json_str)
             bc == BracketCandidate(json_str)
         IN  IF direct.ok THEN direct.val
             ELSE IF bc.found
             THEN IF Loads(bc.candidate).ok THEN Loads(bc.candidate).val
                  ELSE IF LiteralEval(bc.candidate).ok
                  THEN LiteralEval(bc.candidate).val
                  ELSE None
             ELSE None

\* The call _extract_json_from_text(text).
Extract ==
    /\ jstatus = "idle"
    /\ ext_data' = ExtractJsonFromText(text)
    /\ jstatus' = "done"
    /\ UNCHANGED text
    /\ UNCHANGED <<balVars, genVars, extVars, newVars>>

\* Responses: every token sequence of at most MaxTextLen tokens, and the
\* responses made of prose, an optional fenced block and a body.
Q == "\""
Bodies ==
    {<<"{", Q, "item_id", Q, ":", "[", Q, "s", Q, ",", "1", "]", "}">>,
     <<"{", "'", "item_id", "'", ":", "[", "1", ",", "]", ",", "}">>,
     <<"{", Q, "s", Q, ":", Q, "fence", "Sure", "fence", Q, "}">>,
     <<"{", Q, "s", Q, ":", "[", "1", "]">>,
     <<"[", "1", "]", ",", "[", "1", "]">>,
     <<"1">>,
     <<Q, "Sure", Q>>,
     <<"Sure">>}
Pre == {<<>>, <<"Sure", " ">>, <<"[", "1", "]", "\n">>}
Open == {<<>>, <<"fence">>, <<"fence", "json", "\n">>}
Close == {<<>>, <<"\n", "fence">>}
Post == {<<>>, <<" ", "Sure">>, <<" ", "{", "}">>}
TemplateTexts ==
    {a \o b \o c \o d \o e :
        a \in Pre, b \in Open, c \in Bodies, d \in Close, e \in Post}
Texts == SeqsUpTo(Alphabet, MaxTextLen) \cup TemplateTexts

InitJson ==
    /\ text \in Texts
    /\ ext_data = None
    /\ jstatus = "idle"
    /\ IdleBalance
    /\ IdleGen
    /\ IdleExt
    /\ IdleSplit /\ IdleLoad /\ IdleNames /\ IdleRace

NextJson == Extract

SpecJson == InitJson /\ [][NextJson]_vars

---------------------------------------------------------------------------
(* File names and storage areas *)

\* A file name is a sequence of tokens; its last token is its extension.
Extensions == {".xlsx", ".XLSX", ".pdf", ".PDF", ".txt", ".py"}

\* Path(name).suffix and Path(name).stem
Suffix(name) ==
    IF name # <<>> /\ name[Len(name)] \in Extensions
    THEN name[Len(name)] ELSE ""
Stem(name) ==
    IF Suffix(name) # "" THEN SubSeq(name, 1, Len(name) - 1) ELSE name

\* str.lower() of an extension
Lower(ext) ==
    CASE ext = ".XLSX" -> ".xlsx"
      [] ext = ".PDF" -> ".pdf"
      [] OTHER -> ext

\* path.with_suffix(ext)
WithSuffix(name, ext) == Stem(name) \o <<ext>>

\* A name that resolves outside the area it is joined to; the one such
\* file that exists is the program's own main.py.
Outside(name) == name # <<>> /\ name[1] = "../"
MainPy == <<"../", "main", ".py">>

\* (AREA_DIR / filename).resolve().exists()
PathExists(area, name) ==
    IF Outside(name) THEN name = MainPy ELSE name \in DOMAIN area

\* The area after a file is written (a file of that name is replaced).
WriteFile(area, name, content) ==
    [n \in DOMAIN area \cup {name} |-> IF n = name THEN content ELSE area[n]]

\* os.replace(src, dst)
Rename(area, src, dst) ==
    [n \in (DOMAIN area \ {src}) \cup {dst} |->
        IF n = dst THEN area[src] ELSE area[n]]

---------------------------------------------------------------------------
(* enrich_df, src/helpers.py:17-44.  A table is a dict of columns. *)

meta_cols ==
    <<"name_file", "url_file", "page", "active", "capture_log", "subject_mail">>

\* The first value of the series, null or not.
FirstValue(series) == IF series = <<>> THEN None ELSE series[1]

\* helpers.py:22-26: s.dropna().iloc[0], or None
first_non_null(series) ==
    LET s == SelectSeq(series, LAMBDA x : x # None)
    IN  IF s = <<>> THEN None ELSE s[1]

\* helpers.py:30-35
meta_value(df, c) ==
    IF c \notin Keys(df) THEN None ELSE first_non_null(Get(df, c).v)

\* len(gen_df): the rows of a table built from lists of one length.
NRows(tbl) == IF tbl.v = <<>> THEN 0 ELSE Len(tbl.v[1].v[1].v)

Broadcast(x, n) == [i \in 1..n |-> x]

\* helpers.py:39: gen_df[c] = v replaces the column c or adds it last.
SetColumn(tbl, c, x) ==
    LET col == Pair(c, List(Broadcast(x, NRows(tbl))))
    IN  IF c \in Keys(tbl)
        THEN Dict([i \in 1..Len(tbl.v) |->
                      IF tbl.v[i].s = c THEN col ELSE tbl.v[i]])
        ELSE Dict(Append(tbl.v, col))

\* helpers.py:38-39
RECURSIVE AssignMeta(_, _, _)
AssignMeta(df, gen_df, i) ==
    IF i > Len(meta_cols) THEN gen_df
    ELSE AssignMeta(df, SetColumn(gen_df, meta_cols[i],
                                  meta_value(df, meta_cols[i])), i + 1)

enrich_df(df, gen_df) == AssignMeta(df, gen_df, 1)

---------------------------------------------------------------------------
(* GET /generate, src/main.py:291-363 *)

Response(filename, status, res, tbl) ==
    [filename |-> filename, status |-> status, results |-> res, tables |-> tbl,
     reached |-> FALSE, ext |-> None, src |-> <<>>, out |-> <<>>]

\* main.py:333-353, once the chunk table df was read from results/xlsx
\* and ext_data was recovered from the reply.
GenerateFrom(filename, xlsx, res, tbl, ext, blnc_data) ==
    LET out_name == Stem(filename) \o <<"_generated", ".xlsx">>
    IN  IF blnc_data.status # "returned"
        THEN [Response(filename, 500, res, tbl) EXCEPT
                 !.reached = TRUE, !.ext = ext, !.src = xlsx]
        ELSE [Response(filename, 200, res,
                       WriteFile(tbl, out_name,
                                 enrich_df(res[xlsx], blnc_data.value)))
                 EXCEPT !.reached = TRUE, !.ext = ext, !.src = xlsx,
                        !.out = out_name]

\* main.py:304-363: the handler and the status its except clauses give.
\* ensure_xlsx_extension (helpers.py:47-71) raises UnsupportedFileTypeError,
\* which this handler turns into 500, and renames a .XLSX file to .xlsx.
\* llm is the model's reply: its text, or raised when the call failed;
\* ext is what _extract_json_from_text recovers from the text.
GenerateHandler(filename, res, tbl, llm, ext) ==
    IF filename = <<>> THEN Response(filename, 400, res, tbl)
    ELSE IF ~PathExists(res, filename) THEN Response(filename, 404, res, tbl)
    ELSE IF Outside(filename) THEN Response(filename, 400, res, tbl)
    ELSE IF Lower(Suffix(filename)) # ".xlsx" THEN Response(filename, 500, res, tbl)
    ELSE IF Suffix(filename) # ".xlsx" /\ "clean_text" \notin Keys(res[filename])
    THEN Response(filename, 400,
                  Rename(res, filename, WithSuffix(filename, ".xlsx")), tbl)
    ELSE IF "clean_text" \notin Keys(res[filename])
    THEN Response(filename, 400, res, tbl)
    ELSE IF llm.raised
    THEN Response(filename, 500,
                  IF Suffix(filename) # ".xlsx"
                  THEN Rename(res, filename, WithSuffix(filename, ".xlsx"))
                  ELSE res, tbl)
    ELSE GenerateFrom(filename, WithSuffix(filename, ".xlsx"),
                      IF Suffix(filename) # ".xlsx"
                      THEN Rename(res, filename, WithSuffix(filename, ".xlsx"))
                      ELSE res,
                      tbl, ext, balance_lists_by_item_id(ext))

\* Replies of the model to /generate.
GenTexts ==
    {<<"fence", "json", "{", Q, "item_id", Q, ":", "[", "1", ",", "1", "]", ",",
       Q, "page", Q, ":", "[", Q, "s", Q, "]", "}", "fence">>,
     <<"{", Q, "item_id", Q, ":", "[", "]", ",", Q, "s", Q, ":", "[", "1", "]", "}">>,
     <<"{", Q, "s", Q, ":", "[", "1", "]", "}">>,
     <<"{", Q, "item_id", Q, ":", "1", "}">>,
     <<"{", Q, "item_id", Q, ":", "[", "1", "]", ",", Q, "s", Q, ":", "1", "}">>,
     <<"[", Q, "item_id", Q, "]">>,
     <<Q, "item_id", Q>>,
     <<"Sure">>}
Replies ==
    {[raised |-> TRUE, text |-> <<>>]}
        \cup {[raised |-> FALSE, text |-> t] : t \in GenTexts}

PageTable == <<"doc", "_page_", "1", ".xlsx">>
UpperTable == <<"doc", "_page_", "1", ".XLSX">>
GenNames ==
    {<<>>, PageTable, UpperTable,
     <<"doc", "_page_", "2", ".xlsx">>, <<"notes", ".txt">>, MainPy}

\* One invocation of /generate.
Generate ==
    /\ \E filename \in GenNames, llm \in Replies :
         \E ext \in {ExtractJsonFromText(llm.text)} :
         \E r \in {GenerateHandler(filename, results, tables, llm, ext)} :
             /\ results' = r.results
             /\ tables' = r.tables
             /\ glast' = [filename |-> r.filename, status |-> r.status,
                          reached |-> r.reached, ext |-> r.ext,
                          src |-> r.src, out |-> r.out]
    /\ UNCHANGED <<balVars, jsonVars, extVars, newVars>>

\* Chunk tables in the results area: the columns the Extractor writes, of
\* at most MaxRows rows; one metadata column may be missing or hold any
\* mix of nulls and values, and clean_text may be missing.
ExtractorValue(c) ==
    CASE c = "name_file" -> Str("doc.pdf")
      [] c = "url_file" -> Str("https://openia.soft-box.com.mx/files/doc.pdf")
      [] c = "page" -> Str("1")
      [] c = "active" -> Str("1")
      [] c = "capture_log" -> Str("2026-01-01 00:00:00-06:00")
      [] OTHER -> Str("captura")
Cells == {None, Str("3"), Str("4")}
ChunkTable(n, free, cells, hasFree, hasText) ==
    LET cols == SelectSeq(meta_cols, LAMBDA c : c # free \/ hasFree)
        meta == [i \in 1..Len(cols) |->
                    Pair(cols[i],
                         List(IF cols[i] = free THEN cells
                              ELSE Broadcast(ExtractorValue(cols[i]), n)))]
    IN  Dict(IF hasText
             THEN Append(meta, Pair("clean_text", List(Broadcast(Str("txt"), n))))
             ELSE meta)
ChunkTables ==
    {ChunkTable(Len(cells), free, cells, hasFree, hasText) :
        free \in {"page", "subject_mail"},
        cells \in UNION {[1..n -> Cells] : n \in 1..MaxRows},
        hasFree \in BOOLEAN, hasText \in BOOLEAN}

InitGenerate ==
    /\ \E T \in ChunkTables, name \in {PageTable, UpperTable} :
          results = WriteFile(WriteFile(<<>>, <<"notes", ".txt">>, T), name, T)
    /\ tables = <<>>
    /\ glast = NoCall
    /\ IdleBalance
    /\ IdleJson
    /\ IdleExt
    /\ IdleSplit /\ IdleLoad /\ IdleNames /\ IdleRace

NextGenerate == Generate

SpecGenerate == InitGenerate /\ [][NextGenerate]_vars

---------------------------------------------------------------------------
(* File-name helpers of the Extractor, src/helpers.py:163-190 *)

Digits == {"1", "2", "16"}

\* The text of a token sequence.
RECURSIVE Concat(_)
Concat(toks) == IF toks = <<>> THEN "" ELSE toks[1] \o Concat(Tail(toks))

\* helpers.py:163-171: re.search(r'_page_(\d+)\.pdf$'), case-sensitive.
extract_page_number(name) ==
    IF /\ Len(name) >= 3
       /\ name[Len(name)] = ".pdf"
       /\ name[Len(name) - 1] \in Digits
       /\ name[Len(name) - 2] = "_page_"
    THEN Str(name[Len(name) - 1]) ELSE None

\* The base cut at the first _page_ of the name, not at the last.
extract_original_pdf_name_FirstPage(name) ==
    IF name = <<>> THEN Raise("ValueError")
    ELSE IF Lower(Suffix(name)) # ".pdf" THEN Raise("ValueError")
    ELSE IF \E k \in 2..Len(name) : name[k] = "_page_"
    THEN Return(SubSeq(name, 1,
                       Min({k \in 2..Len(name) : name[k] = "_page_"}) - 1)
                    \o <<".pdf">>)
    ELSE Return(Stem(name) \o <<".pdf">>)

\* helpers.py:174-190: the extension test and the match ignore case.
extract_original_pdf_name(name) ==
    IF name = <<>> THEN Raise("ValueError")
    ELSE IF Lower(Suffix(name)) # ".pdf" THEN Raise("ValueError")
    ELSE IF /\ Len(name) >= 4
            /\ name[Len(name) - 1] \in Digits
            /\ name[Len(name) - 2] = "_page_"
    THEN Return(SubSeq(name, 1, Len(name) - 3) \o <<".pdf">>)
    ELSE Return(Stem(name) \o <<".pdf">>)

\* helpers.py:396-416: the stem without a final _generated, then without
\* a final _page_<digits>, then ".pdf"; "" for an empty name.
get_original_pdf_from_generated_xlsx(name) ==
    IF name = <<>> THEN <<>>
    ELSE LET stem == Stem(name)
             base_name == IF stem # <<>> /\ stem[Len(stem)] = "_generated"
                          THEN SubSeq(stem, 1, Len(stem) - 1) ELSE stem
         IN  IF /\ Len(base_name) >= 3
                /\ base_name[Len(base_name)] \in Digits
                /\ base_name[Len(base_name) - 1] = "_page_"
             THEN SubSeq(base_name, 1, Len(base_name) - 2) \o <<".pdf">>
             ELSE base_name \o <<".pdf">>

\* Base names: words, digit strings and the stages' own suffixes, in any
\* order.
NameTokens == {"a", "_page_", "1", "_generated"}
BaseNames == SeqsUpTo(NameTokens, MaxBase) \ {<<>>}

\* The three helpers applied to the names the stages give to page idx of
\* the document B.
Derive ==
    /\ ~nm.done
    /\ nm' = [nm EXCEPT
                !.done = TRUE,
                !.original = extract_original_pdf_name(
                                 nm.B \o <<"_page_", nm.idx, ".pdf">>),
                !.page = extract_page_number(nm.B \o <<"_page_", nm.idx, ".pdf">>),
                !.from_xlsx = get_original_pdf_from_generated_xlsx(
                                  nm.B \o <<"_page_", nm.idx, "_generated", ".xlsx">>)]
    /\ UNCHANGED <<balVars, jsonVars, genVars, extVars, splitVars, loadVars, race>>

InitNames ==
    /\ \E B \in BaseNames, idx \in Digits :
          nm = [B |-> B, idx |-> idx, done |-> FALSE, original |-> Raise(""),
                page |-> None, from_xlsx |-> <<>>]
    /\ IdleBalance
    /\ IdleJson
    /\ IdleGen
    /\ IdleExt
    /\ IdleSplit /\ IdleLoad /\ IdleRace

NextNames == Derive

SpecNames == InitNames /\ [][NextNames]_vars

---------------------------------------------------------------------------
(* html_table_to_tuples and parse_table_replace, src/helpers.py:212-231.
   A chunk's text is a sequence of tokens: tags, words and whitespace. *)

Tags == {"<table>", "</table>", "<tr>", "</tr>", "<td>", "</td>", "<th>", "</th>"}

\* The elements of a set of numbers in increasing order.
RECURSIVE Ascending(_)
Ascending(S) ==
    IF S = {} THEN <<>> ELSE <<Min(S)>> \o Ascending(S \ {Min(S)})

\* The first position after p holding one of the given tokens, or the
\* position after the last token.
NextOf(html, p, toks) ==
    Min({q \in (p + 1)..Len(html) : html[q] \in toks} \cup {Len(html) + 1})

\* cell.get_text(strip=True) of the cell opened at position q
CellText(html, q) ==
    Concat(Strip(SubSeq(html, q + 1, NextOf(html, q, Tags) - 1)))

\* The cells of the row opened at position p, inside a table ending at to.
RowCells(html, p, to) ==
    LET stop == Min({NextOf(html, p, {"<tr>"}), to})
        cellAt == Ascending({q \in (p + 1)..(stop - 1) : html[q] \in {"<td>", "<th>"}})
    IN  [k \in 1..Len(cellAt) |-> CellText(html, cellAt[k])]

\* sep.join(items)
RECURSIVE JoinWith(_, _)
JoinWith(items, sep) ==
    IF items = <<>> THEN ""
    ELSE IF Len(items) = 1 THEN items[1]
    ELSE items[1] \o sep \o JoinWith(Tail(items), sep)

\* str() of a tuple of strings and of a list of such tuples
ReprTuple(cells) ==
    LET quoted == [k \in 1..Len(cells) |-> "'" \o cells[k] \o "'"]
    IN  IF Len(cells) = 1 THEN "(" \o quoted[1] \o ",)"
        ELSE "(" \o JoinWith(quoted, ", ") \o ")"
ReprList(rows) ==
    "[" \o JoinWith([k \in 1..Len(rows) |-> ReprTuple(rows[k])], ", ") \o "]"

\* helpers.py:212-226: an empty list when there is no table element, else
\* the text of the list of row tuples of the first table.
html_table_to_tuples(html) ==
    IF "<table>" \notin Range(html) THEN List(<<>>)
    ELSE LET from == Min({q \in 1..Len(html) : html[q] = "<table>"})
             to == NextOf(html, from, {"</table>"})
             rowAt == Ascending({q \in from..(to - 1) : html[q] = "<tr>"})
         IN  Str(ReprList([k \in 1..Len(rowAt) |-> RowCells(html, rowAt[k], to)]))

\* helpers.py:228-231
parse_table_replace(row) ==
    IF row.chunk_type = "table" THEN html_table_to_tuples(row.text_html)
    ELSE None

---------------------------------------------------------------------------
(* GET /extract, src/main.py:161-288 *)

\* bool(x) of a grounding attribute
Truthy(x) == x # None /\ ~(x.t = "list" /\ x.v = <<>>)

\* main.py:219-227 and 230-238: the record of one row
Record(chunk, i, original_pdf, link, page) ==
    [chunk_id |-> chunk.chunk_id, chunk |-> Num(ToString(i + 1)),
     chunk_type |-> chunk.chunk_type, text_html |-> chunk.text,
     name_file |-> Str(Concat(original_pdf)), url_file |-> Str(link),
     page |-> page]

\* One row for every chunk, whatever its groundings.
ChunkRecords_OnePerChunk(chunk, i, original_pdf, link, page) ==
    <<Record(chunk, i, original_pdf, link, page)>>

\* main.py:215-238: the records of the chunk enumerate() numbers i
ChunkRecords(chunk, i, original_pdf, link, page) ==
    IF Truthy(chunk.grounding)
    THEN Broadcast(Record(chunk, i, original_pdf, link, page),
                   Len(chunk.grounding.v))
    ELSE <<Record(chunk, i, original_pdf, link, page)>>

\* main.py:206-238: the loop over r.chunks, from the k-th chunk on
RECURSIVE Records(_, _, _, _, _)
Records(cs, k, original_pdf, link, page) ==
    IF k > Len(cs) THEN <<>>
    ELSE ChunkRecords(cs[k], k - 1, original_pdf, link, page)
             \o Records(cs, k + 1, original_pdf, link, page)

\* str.lower() of a chunk type
StrLower(a) == IF a \in {"Table", "TABLE"} THEN "table" ELSE a

\* main.py:253-257: clean_text of a row
clean_text(row) ==
    IF StrLower(row.chunk_type) # "table" /\ parse_table_replace(row) = None
    THEN Str(Concat(row.text_html))
    ELSE parse_table_replace(row)

ExtractColumns ==
    <<"chunk_id", "chunk", "chunk_type", "text_html", "name_file", "url_file",
      "page", "active", "capture_log", "subject_mail", "clean_text">>

\* The cell of a row in a column of the chunk table, main.py:240-257
Cell(row, c) ==
    CASE c = "chunk_id" -> row.chunk_id
      [] c = "chunk" -> row.chunk
      [] c = "chunk_type" -> Str(row.chunk_type)
      [] c = "text_html" -> Str(Concat(row.text_html))
      [] c = "name_file" -> row.name_file
      [] c = "url_file" -> row.url_file
      [] c = "page" -> row.page
      [] c = "clean_text" -> clean_text(row)
      [] OTHER -> ExtractorValue(c)

DataFrame(records) ==
    Dict([j \in 1..Len(ExtractColumns) |->
             Pair(ExtractColumns[j],
                  List([r \in 1..Len(records) |-> Cell(records[r], ExtractColumns[j])]))])

\* main.py:263: a cell holding a list cannot be written to a workbook.
Writable(df) ==
    \A r \in 1..NRows(df) : Get(df, "clean_text").v[r].t # "list"

EResponse(filename, status, res) ==
    [filename |-> filename, status |-> status, results |-> res,
     chunks |-> <<>>, out |-> <<>>]

\* main.py:260-263: the name of the chunk table
excel_name(original_pdf, page) ==
    Stem(original_pdf)
        \o <<"_page_", IF page = None THEN "None" ELSE page.s, ".xlsx">>

\* main.py:174-288: the handler and the status its except clauses give.
\* parsed is the outcome of parse(): the chunks of the page, or raised.
\* With no chunk at all, df.apply gives a frame, not a column, and whether
\* assigning it to df["clean_text"] raises depends on the pandas in use:
\* emptyRaises is that outcome.
ExtractHandler(filename, pgs, res, parsed, emptyRaises) ==
    IF filename = <<>> THEN EResponse(filename, 400, res)
    ELSE IF ~PathExists(pgs, filename) THEN EResponse(filename, 404, res)
    ELSE IF Outside(filename) THEN EResponse(filename, 400, res)
    ELSE IF extract_original_pdf_name(filename).status # "returned"
    THEN EResponse(filename, 500, res)
    ELSE IF parsed.raised THEN EResponse(filename, 500, res)
    ELSE LET original_pdf == extract_original_pdf_name(filename).value
             page == extract_page_number(filename)
             link == "https://openia.soft-box.com.mx/files/" \o Concat(original_pdf)
             df == DataFrame(Records(parsed.chunks, 1, original_pdf, link, page))
         IN  IF parsed.chunks = <<>> /\ emptyRaises
             THEN [EResponse(filename, 500, res) EXCEPT !.chunks = parsed.chunks]
             ELSE IF ~Writable(df)
             THEN [EResponse(filename, 500, res) EXCEPT !.chunks = parsed.chunks]
             ELSE [EResponse(filename, 200,
                             WriteFile(res, excel_name(original_pdf, page), df))
                      EXCEPT !.chunks = parsed.chunks,
                             !.out = excel_name(original_pdf, page)]

PageFile == <<"doc", "_page_", "1", ".pdf">>
UpperPage == <<"doc", "_page_", "2", ".PDF">>
PageNames ==
    {<<>>, PageFile, UpperPage, <<"doc", "_page_", "2", ".pdf">>,
     <<"notes", ".txt">>, MainPy}

\* parse() raises or returns; a returned result without chunks may make
\* the clean_text assignment raise.
ParseOutcomes == {"raised", "returned", "emptyRaises"}

\* One invocation of /extract.
ExtractPage ==
    /\ \E filename \in PageNames, outcome \in ParseOutcomes :
         \E r \in {ExtractHandler(filename, pages, results,
                                  [raised |-> outcome = "raised", chunks |-> chunks],
                                  outcome = "emptyRaises")} :
             /\ results' = r.results
             /\ elast' = [filename |-> r.filename, status |-> r.status,
                          chunks |-> r.chunks, out |-> r.out]
    /\ UNCHANGED <<pages, chunks, tables, glast>>
    /\ UNCHANGED <<balVars, jsonVars, newVars>>

\* What the extraction service can return for a chunk: its type, in any
\* letter case of "table", and its text, with or without a table element.
TableHtml ==
    <<"<table>", "<tr>", "<td>", "Total", "</td>", "<td>", "5", "</td>",
      "</tr>", "</table>">>
ChunkKinds ==
    {[chunk_type |-> "table", text |-> TableHtml],
     [chunk_type |-> "table", text |-> <<"Total", " ", "5">>],
     [chunk_type |-> "Table", text |-> TableHtml],
     [chunk_type |-> "text", text |-> <<"Total", " ", "5">>],
     [chunk_type |-> "text", text |-> <<>>]}
Box == Str("box")
Groundings == {<<>>, <<Box>>, <<Box, Box>>}
Chunk(k, kind, g) ==
    [chunk_id |-> Str("c" \o ToString(k)), chunk_type |-> kind.chunk_type,
     text |-> kind.text, grounding |-> List(g)]

InitExtract ==
    /\ pages = WriteFile(WriteFile(WriteFile(<<>>, PageFile, Str("pdf")),
                                   UpperPage, Str("pdf")),
                         <<"notes", ".txt">>, Str("txt"))
    /\ \E n \in 0..MaxChunks :
         \E kinds \in [1..n -> ChunkKinds], gs \in [1..n -> Groundings] :
            chunks = [k \in 1..n |-> Chunk(k, kinds[k], gs[k])]
    /\ elast = NoExtract
    /\ results = <<>>
    /\ tables = <<>>
    /\ glast = NoCall
    /\ IdleBalance
    /\ IdleJson
    /\ IdleSplit /\ IdleLoad /\ IdleNames /\ IdleRace

NextExtract == ExtractPage

SpecExtract == InitExtract /\ [][NextExtract]_vars

---------------------------------------------------------------------------
(* GET /split, src/main.py:111-158, with preprocess_filename and
   split_pdf_to_pages, src/helpers.py:73-160.  A document is its version
   and its number of pages; page i of it is [doc, page]. *)

Document(ver, n) == [ver |-> ver, n |-> n]
PageOf(doc, i) == [doc |-> doc.ver, page |-> i]

\* The area without the file of that name.
RemoveFile(area, name) == [n \in DOMAIN area \ {name} |-> area[n]]

\* helpers.py:152: f"{basename}_page_{i+1}.pdf", i counted from 0
PageName(basename, i) == basename \o <<"_page_", ToString(i + 1), ".pdf">>

\* helpers.py:158: the archive name of the document
ArchiveName(basename) == basename \o <<".pdf">>

\* helpers.py:109-129 and 73-107: the exception preprocess_filename raises
\* for a name, or "returned".  The containment test comes before the
\* existence test.
preprocess_filename(filename, area) ==
    IF filename = <<>> THEN Raise("ValueError")
    ELSE IF Outside(filename) THEN Raise("ValueError")
    ELSE IF filename \notin DOMAIN area THEN Raise("FileNotFoundError")
    ELSE IF Suffix(filename) = ".pdf" THEN Return(filename)
    ELSE IF Lower(Suffix(filename)) = ".pdf"
    THEN Return(WithSuffix(filename, ".pdf"))
    ELSE Raise("UnsupportedFileTypeError")

\* main.py:147-158: the status /split gives an exception
SplitStatus(e) ==
    CASE e = "FileNotFoundError" -> 404
      [] e = "UnsupportedFileTypeError" -> 415
      [] OTHER -> 500

DocNames == {<<"doc", ".pdf">>, <<"doc", ".PDF">>}
Documents == {Document(ver, n) : ver \in {"v1", "v2"}, n \in 0..MaxPages}
SplitNames ==
    DocNames \cup {<<>>, <<"gone", ".pdf">>, <<"notes", ".txt">>, MainPy}

\* main.py:124-131: the request arrives, the name is checked and a .PDF
\* file is renamed to .pdf; helpers.py:145-146: the document is opened.
SplitBegin ==
    /\ spl.pc # "writing"
    /\ \E filename \in SplitNames :
         \E r \in {preprocess_filename(filename, files)} :
            IF filename = <<>>
            THEN /\ spl' = [NoSplit EXCEPT !.pc = "done", !.status = 400]
                 /\ UNCHANGED files
            ELSE IF r.status # "returned"
            THEN /\ spl' = [NoSplit EXCEPT !.pc = "done", !.filename = filename,
                                           !.status = SplitStatus(r.status)]
                 /\ UNCHANGED files
            ELSE /\ files' = IF r.value = filename THEN files
                             ELSE Rename(files, filename, r.value)
                 /\ spl' = [NoSplit EXCEPT !.pc = "writing",
                                           !.filename = filename,
                                           !.input = r.value,
                                           !.num_pages = files[filename].n]
    /\ UNCHANGED <<archive, pages>>

\* helpers.py:149-155: one turn of the loop writes the next page file.
SplitWritePage ==
    /\ spl.pc = "writing"
    /\ spl.written < spl.num_pages
    /\ pages' = WriteFile(pages, PageName(Stem(spl.input), spl.written),
                          PageOf(files[spl.input], spl.written + 1))
    /\ spl' = [spl EXCEPT !.written = spl.written + 1]
    /\ UNCHANGED <<files, archive>>

\* The move made without waiting for the loop to end.
SplitMove_Early ==
    /\ spl.pc = "writing"
    /\ archive' = WriteFile(archive, ArchiveName(Stem(spl.input)), files[spl.input])
    /\ files' = RemoveFile(files, spl.input)
    /\ spl' = [spl EXCEPT !.pc = "done", !.status = 200]
    /\ UNCHANGED pages

\* helpers.py:158-160 and main.py:136-145: after the loop the document is
\* moved to the archive and the page count is reported.
SplitMove ==
    /\ spl.pc = "writing"
    /\ spl.written = spl.num_pages
    /\ archive' = WriteFile(archive, ArchiveName(Stem(spl.input)), files[spl.input])
    /\ files' = RemoveFile(files, spl.input)
    /\ spl' = [spl EXCEPT !.pc = "done", !.status = 200]
    /\ UNCHANGED pages

\* A page write or the move raises (main.py:150-158), or the process
\* stops: the invocation ends where it is.
SplitFail ==
    /\ spl.pc = "writing"
    /\ \E st \in {404, 500, 0} :
         spl' = [spl EXCEPT !.pc = IF st = 0 THEN "crashed" ELSE "done",
                            !.status = st]
    /\ UNCHANGED <<files, archive, pages>>

\* A document arrives in the incoming area under a name that is free.
Upload ==
    /\ spl.pc # "writing"
    /\ \E name \in DocNames, doc \in Documents :
         /\ name \notin DOMAIN files
         /\ files' = WriteFile(files, name, doc)
    /\ UNCHANGED <<archive, pages, spl>>

InitSplit ==
    /\ \E name \in DocNames, doc \in Documents :
         files = WriteFile(WriteFile(<<>>, <<"notes", ".txt">>, Document("v1", 1)),
                           name, doc)
    /\ archive = <<>>
    /\ pages = <<>>
    /\ spl = NoSplit
    /\ chunks = <<>>
    /\ elast = NoExtract
    /\ IdleBalance
    /\ IdleJson
    /\ IdleGen
    /\ IdleLoad /\ IdleNames /\ IdleRace

SplitFrame == UNCHANGED <<balVars, jsonVars, genVars, chunks, elast, loadVars, nm, race>>

NextSplit ==
    \/ SplitBegin /\ SplitFrame
    \/ SplitWritePage /\ SplitFrame
    \/ SplitMove /\ SplitFrame
    \/ SplitFail /\ SplitFrame
    \/ Upload /\ SplitFrame

SpecSplit == InitSplit /\ [][NextSplit]_vars

---------------------------------------------------------------------------
(* GET /insert, src/main.py:366-492 *)

\* The characters of the strings that occur in table cells.
Chars(a) ==
    CASE a = "" -> <<>>
      [] a = " " -> <<" ">>
      [] a = " \n" -> <<" ", "\n">>
      [] a = "0" -> <<"0">>
      [] a = "NULL" -> <<"N", "U", "L", "L">>
      [] OTHER -> <<"a">>

\* re: the whole string matches ^\s*$
IsBlank(a) == \A i \in 1..Len(Chars(a)) : Chars(a)[i] \in WS

\* main.py:394: a cell as pd.read_excel gives it.  A cell without a value
\* and a cell holding the empty string are both read as NaN.
ReadCell(cell) == IF cell = Str("") THEN None ELSE cell

\* main.py:401: df.replace(r'^\s*$', 'NULL', regex=True) on one cell; only
\* strings are matched against the pattern.
ReplaceCell(cell) ==
    IF cell.t = "str" /\ IsBlank(cell.s) THEN Str("NULL") ELSE cell

\* main.py:402-403: the two renames, one after the other
RenameColumn(c) ==
    IF c = "item_id" THEN "item"
    ELSE IF c = "page" THEN "page_number"
    ELSE c

\* main.py:394-403: the frame the rows are taken from
PrepareFrame(tbl) ==
    Dict([j \in 1..Len(tbl.v) |->
             Pair(RenameColumn(tbl.v[j].s),
                  List([r \in 1..NRows(tbl) |->
                           ReplaceCell(ReadCell(tbl.v[j].v[1].v[r]))]))])

\* main.py:415: list(df.columns)
ColumnsOf(df) == [j \in 1..Len(df.v) |-> df.v[j].s]

\* main.py:425: the row tuples; with the column list they make the
\* statement of main.py:420-422 for one row.
RowsOf(df) ==
    [r \in 1..NRows(df) |->
        [cols |-> ColumnsOf(df),
         vals |-> [j \in 1..Len(df.v) |-> df.v[j].v[1].v[r]]]]

GenTable == <<"doc", "_page_", "1", "_generated", ".xlsx">>
UpperGen == <<"doc", "_page_", "1", "_generated", ".XLSX">>
InsertNames ==
    {<<>>, GenTable, UpperGen, <<"doc", "_page_", "2", "_generated", ".xlsx">>,
     <<"notes", ".txt">>, MainPy}

Ended(filename, status) ==
    [NoInsert EXCEPT !.pc = "done", !.filename = filename, !.status = status,
                     !.before = db]

\* main.py:378-434: the request arrives, the file is checked, read and
\* prepared, and the connection is opened (or refused: InterfaceError).
InsertBegin ==
    /\ ins.pc \notin {"executing", "failed"}
    /\ Len(db) <= MaxDbRows
    /\ \E filename \in InsertNames, connected \in BOOLEAN :
         IF filename = <<>> THEN ins' = Ended(filename, 400) /\ UNCHANGED tables
         ELSE IF ~PathExists(tables, filename)
         THEN ins' = Ended(filename, 404) /\ UNCHANGED tables
         ELSE IF Outside(filename)
         THEN ins' = Ended(filename, 400) /\ UNCHANGED tables
         ELSE IF Lower(Suffix(filename)) # ".xlsx"
         THEN ins' = Ended(filename, 415) /\ UNCHANGED tables
         ELSE /\ tables' = IF Suffix(filename) # ".xlsx"
                           THEN Rename(tables, filename, WithSuffix(filename, ".xlsx"))
                           ELSE tables
              /\ \E df \in {PrepareFrame(tables[filename])} :
                    IF NRows(df) = 0 THEN ins' = Ended(filename, 400)
                    ELSE IF ~connected THEN ins' = Ended(filename, 502)
                    ELSE ins' = [NoInsert EXCEPT
                                    !.pc = "executing", !.filename = filename,
                                    !.src = WithSuffix(filename, ".xlsx"),
                                    !.rows = RowsOf(df), !.cols = ColumnsOf(df),
                                    !.before = db]
    /\ UNCHANGED <<db, txn>>

\* Every row is committed as soon as it is inserted.
InsertRow_AutoCommit ==
    /\ ins.pc = "executing"
    /\ ins.done < Len(ins.rows)
    /\ db' = Append(db, ins.rows[ins.done + 1])
    /\ ins' = [ins EXCEPT !.done = ins.done + 1]
    /\ UNCHANGED <<txn, tables>>

\* main.py:437: executemany runs the statement for the next row, inside
\* the transaction the connection opened.
InsertRow ==
    /\ ins.pc = "executing"
    /\ ins.done < Len(ins.rows)
    /\ txn' = Append(txn, ins.rows[ins.done + 1])
    /\ ins' = [ins EXCEPT !.done = ins.done + 1]
    /\ UNCHANGED <<db, tables>>

\* main.py:438 and 453-463: commit, close, answer with the row count
InsertCommit ==
    /\ ins.pc = "executing"
    /\ ins.done = Len(ins.rows)
    /\ db' = db \o txn
    /\ txn' = <<>>
    /\ ins' = [ins EXCEPT !.pc = "done", !.status = 200,
                          !.rows_inserted = Len(ins.rows)]
    /\ UNCHANGED tables

\* main.py:439: a row's statement or the commit raises.
InsertRaises ==
    /\ ins.pc = "executing"
    /\ ins' = [ins EXCEPT !.pc = "failed"]
    /\ UNCHANGED <<db, txn, tables>>

\* main.py:440-452: rollback (or, if that raises too, the close of the
\* connection) discards the transaction; then 500 is raised.
InsertRollback ==
    /\ ins.pc = "failed"
    /\ txn' = <<>>
    /\ ins' = [ins EXCEPT !.pc = "done", !.status = 500]
    /\ UNCHANGED <<db, tables>>

\* The process stops: the server drops the connection's transaction.
InsertCrash ==
    /\ ins.pc \in {"executing", "failed"}
    /\ txn' = <<>>
    /\ ins' = [ins EXCEPT !.pc = "crashed"]
    /\ UNCHANGED <<db, tables>>

\* Generated tables in the tables area: item_id and page as the Table
\* Generator writes them, and one column of arbitrary cells.
CellValues == {None, Str(""), Str(" "), Str(" \n"), Str("0"), Str("a")}
GeneratedTable(cells) ==
    Dict(<<Pair("item_id", List([r \in 1..Len(cells) |-> Str("a")])),
           Pair("description", List(cells)),
           Pair("page", List([r \in 1..Len(cells) |-> Str("0")]))>>)
GeneratedTables == {GeneratedTable(cells) : cells \in SeqsUpTo(CellValues, MaxRows)}

InitLoad ==
    /\ \E T \in GeneratedTables, name \in {GenTable, UpperGen} :
          tables = WriteFile(WriteFile(<<>>, <<"notes", ".txt">>, T), name, T)
    /\ db = <<>>
    /\ txn = <<>>
    /\ ins = NoInsert
    /\ results = <<>>
    /\ glast = NoCall
    /\ IdleBalance
    /\ IdleJson
    /\ IdleExt
    /\ IdleSplit /\ IdleNames /\ IdleRace

LoadFrame ==
    UNCHANGED <<balVars, jsonVars, results, glast, extVars, splitVars, nm, race>>

NextLoad ==
    \/ InsertBegin /\ LoadFrame
    \/ InsertRow /\ LoadFrame
    \/ InsertCommit /\ LoadFrame
    \/ InsertRaises /\ LoadFrame
    \/ InsertRollback /\ LoadFrame
    \/ InsertCrash /\ LoadFrame

SpecLoad == InitLoad /\ [][NextLoad]_vars

---------------------------------------------------------------------------
(* Two concurrent invocations of GET /extract, src/main.py:161-288, step
   by step: the checks of the name, the call of the extraction service,
   and the write of the workbook.  race.log records the checks passed and
   the workbooks written, in order. *)

Invocations == {1, 2}

\* The pages area both invocations read; /extract never changes it.
RacePages ==
    WriteFile(WriteFile(WriteFile(<<>>, PageFile, Str("pdf")),
                        <<"doc", "_page_", "2", ".pdf">>, Str("pdf")),
              <<"notes", ".txt">>, Str("txt"))
RaceNames == DOMAIN RacePages \cup {<<"doc", "_page_", "16", ".pdf">>}

\* What parse() returns for a page: the service may cut it differently on
\* each call, or fail.
RaceParses ==
    {<<>>} \cup
    {<<Chunk(1, [chunk_type |-> "text", text |-> <<>>], g)>> : g \in {<<Box>>, <<Box, Box>>}}

NoRace ==
    [pc |-> [i \in Invocations |-> "idle"],
     filename |-> [i \in Invocations |-> <<>>],
     chunks |-> [i \in Invocations |-> <<>>],
     status |-> [i \in Invocations |-> 0],
     results |-> <<>>,
     log |-> <<>>]

RaceEnd(i, status) ==
    [race EXCEPT !.pc[i] = "done", !.status[i] = status]

\* main.py:259-261
RaceOut(filename) ==
    excel_name(extract_original_pdf_name(filename).value,
               extract_page_number(filename))

\* main.py:206-257
RaceFrame(i) ==
    LET original_pdf == extract_original_pdf_name(race.filename[i]).value
    IN  DataFrame(Records(race.chunks[i], 1, original_pdf,
                          "https://openia.soft-box.com.mx/files/"
                              \o Concat(original_pdf),
                          extract_page_number(race.filename[i])))

RaceOthers == UNCHANGED <<balVars, jsonVars, genVars, extVars, splitVars, loadVars, nm>>

\* main.py:174-193: the checks of the name; nothing is asked about the
\* output, and nothing is reserved.
RaceCheck(i) ==
    /\ race.pc[i] = "idle"
    /\ \E filename \in RaceNames :
          race' = IF ~PathExists(RacePages, filename)
                  THEN [RaceEnd(i, 404) EXCEPT !.filename[i] = filename]
                  ELSE IF Outside(filename)
                  THEN [RaceEnd(i, 400) EXCEPT !.filename[i] = filename]
                  ELSE IF extract_original_pdf_name(filename).status # "returned"
                  THEN [RaceEnd(i, 500) EXCEPT !.filename[i] = filename]
                  ELSE [race EXCEPT
                          !.pc[i] = "checked",
                          !.filename[i] = filename,
                          !.log = Append(@, [inv |-> i, op |-> "check",
                                             path |-> RaceOut(filename)])]
    /\ RaceOthers

\* main.py:196-200: parse()
RaceParse(i) ==
    /\ race.pc[i] = "checked"
    /\ \/ race' = RaceEnd(i, 500)
       \/ \E cs \in RaceParses :
             race' = [race EXCEPT !.pc[i] = "parsed", !.chunks[i] = cs]
    /\ RaceOthers

\* The write made only when the workbook is not there yet.
RaceWrite_CreateIfAbsent(i) ==
    /\ race.pc[i] = "parsed"
    /\ race' = IF race.chunks[i] = <<>> \/ ~Writable(RaceFrame(i))
               THEN RaceEnd(i, 500)
               ELSE IF RaceOut(race.filename[i]) \in DOMAIN race.results
               THEN RaceEnd(i, 200)
               ELSE [RaceEnd(i, 200) EXCEPT
                       !.results = WriteFile(@, RaceOut(race.filename[i]),
                                             RaceFrame(i)),
                       !.log = Append(@, [inv |-> i, op |-> "write",
                                          path |-> RaceOut(race.filename[i])])]
    /\ RaceOthers

\* main.py:202-288: the frame, df.to_excel(excel_path) and the answer.
\* Without chunks the clean_text assignment may raise (see ExtractHandler).
RaceWrite(i) ==
    /\ race.pc[i] = "parsed"
    /\ \/ /\ race.chunks[i] = <<>> \/ ~Writable(RaceFrame(i))
          /\ race' = RaceEnd(i, 500)
       \/ /\ Writable(RaceFrame(i))
          /\ race' = [RaceEnd(i, 200) EXCEPT
                        !.results = WriteFile(@, RaceOut(race.filename[i]),
                                              RaceFrame(i)),
                        !.log = Append(@, [inv |-> i, op |-> "write",
                                           path |-> RaceOut(race.filename[i])])]
    /\ RaceOthers

InitRace ==
    /\ race = NoRace
    /\ IdleBalance
    /\ IdleJson
    /\ IdleGen
    /\ IdleExt
    /\ IdleSplit /\ IdleLoad /\ IdleNames

NextRace ==
    \E i \in Invocations :
        \/ RaceCheck(i)
        \/ RaceParse(i)
        \/ RaceWrite(i)

SpecRace == InitRace /\ [][NextRace]_vars

---------------------------------------------------------------------------
(* Properties of balance_lists_by_item_id *)

DataIn == ValueOf(heap, data)
DataOut == ValueOf(heap, balanced)
KeySeq(d) == [i \in 1..Len(d.v) |-> d.v[i].s]

\* The precondition: an item_id list, and every value a list.
WellFormed(d) ==
    /\ "item_id" \in Keys(d)
    /\ \A i \in 1..Len(d.v) : d.v[i].v[1].t = "list"

\* C1: for an input with an item_id list and only list values the call
\* returns; the result has the keys of the input, every value of it is a
\* list as long as the input's item_id list, and item_id is unchanged.
C1_BalancedShape ==
    /\ (bstatus # "idle" /\ WellFormed(DataIn)) => bstatus = "returned"
    /\ (bstatus = "returned" /\ muts = 0) =>
          /\ KeySeq(DataOut) = KeySeq(DataIn)
          /\ \A i \in 1..Len(DataOut.v) :
                /\ DataOut.v[i].v[1].t = "list"
                /\ Len(DataOut.v[i].v[1].v) = Len(Get(DataIn, "item_id").v)
          /\ Get(DataOut, "item_id") = Get(DataIn, "item_id")

\* An input with duplicate item_ids and lists of other lengths was balanced.
C1_Witness ==
    /\ bstatus = "returned"
    /\ muts = 0
    /\ Get(DataIn, "item_id").v = <<Str("a"), Str("a")>>
    /\ \E i \in 1..Len(DataIn.v) : Len(DataIn.v[i].v[1].v) = 3

\* The pad value the specification names for a list L.
ClaimedPad(L) ==
    IF L = <<>> THEN Str("")
    ELSE IF Cardinality(Range(L)) = 1 THEN L[1]
    ELSE Str("")

\* C2: a list shorter than target_len = len(item_id) is followed by copies
\* of the pad value (empty string for an empty list, L[0] for a list of
\* equal elements, empty string otherwise); a longer list is cut to its
\* first target_len elements; a list of length target_len is unchanged.
C2_PadTruncateRule ==
    (bstatus = "returned" /\ muts = 0) =>
        LET n == Len(Get(DataIn, "item_id").v)
        IN  \A i \in 1..Len(DataIn.v) :
                LET L == DataIn.v[i].v[1].v
                    O == DataOut.v[i].v[1].v
                IN  /\ Len(L) < n =>
                          /\ Len(O) = n
                          /\ \A j \in 1..Len(L) : O[j] = L[j]
                          /\ \A j \in (Len(L) + 1)..n : O[j] = ClaimedPad(L)
                    /\ Len(L) > n =>
                          /\ Len(O) = n
                          /\ \A j \in 1..n : O[j] = L[j]
                    /\ Len(L) = n => O = L

\* The constant-repeat case: x = ["a"] against three item_ids.
C2_Witness ==
    /\ bstatus = "returned"
    /\ muts = 0
    /\ Len(Get(DataIn, "item_id").v) = 3
    /\ "x" \in Keys(DataIn)
    /\ Get(DataIn, "x").v = <<Str("a")>>
    /\ Get(DataOut, "x").v = <<Str("a"), Str("a"), Str("a")>>

\* C3: balancing the result of a call returns a mapping equal to that result.
C3_Idempotent ==
    (bstatus2 # "idle" /\ muts = 0) =>
        /\ bstatus2 = "returned"
        /\ ValueOf(heap, balanced2) = DataOut

\* The second call ran on a result that differs from the original input.
C3_Witness ==
    /\ bstatus2 = "returned"
    /\ muts = 0
    /\ DataOut # DataIn
    /\ \E i \in 1..Len(DataIn.v) :
          Len(DataIn.v[i].v[1].v) < Len(Get(DataIn, "item_id").v)

\* C4: no step changes the argument of a call: not the call itself, whether
\* it returns or raises, and not a later change to a returned list.
C4_InputNeverMutated ==
    [][/\ ValueOf(heap', data') = ValueOf(heap, data)
       /\ (bstatus2' # bstatus2) =>
             ValueOf(heap', balanced') = ValueOf(heap, balanced)]_vars

\* The caller changed a returned list whose input list already had the
\* target length (the list taken from the copy).
C4_Witness ==
    /\ bstatus = "returned"
    /\ muts >= 1
    /\ \E i \in 1..Len(data) :
          /\ Len(heap[data[i].ref]) = Len(Get(DataIn, "item_id").v)
          /\ heap[balanced[i].ref] # heap[data[i].ref]

---------------------------------------------------------------------------
(* Properties of _extract_json_from_text *)

Fences(t) == {i \in 1..Len(t) : t[i] = "fence"}
HasBlock(t) == Cardinality(Fences(t)) >= 2

\* What lies between the first two fences, less a leading json tag and a
\* leading newline.
BlockContent(t) ==
    LET i == Min(Fences(t))
        j == Min(Fences(t) \ {i})
        tagged == j > i + 1 /\ t[i + 1] = "json"
        from == IF tagged THEN i + 2 ELSE i + 1
    IN  SubSeq(t, IF from < j /\ t[from] = "\n" THEN from + 1 ELSE from, j - 1)

Openers(t) == {i \in 1..Len(t) : t[i] \in {"{", "["}}
Closers(t) == {i \in 1..Len(t) : t[i] \in {"}", "]"}}
Outer(t) == SubSeq(t, Min(Openers(t)), Max(Closers(t)))

\* Steps (c) and (d) on the text t: the strict, then the permissive parse
\* of the substring from the earliest opening to the latest closing bracket.
BracketSteps(t) ==
    IF Openers(t) = {} \/ Closers(t) = {} THEN None
    ELSE IF Loads(Outer(t)).ok THEN Loads(Outer(t)).val
    ELSE IF LiteralEval(Outer(t)).ok THEN LiteralEval(Outer(t)).val
    ELSE None

\* The text the recovery works on: the first fenced block's content when
\* there is a block, the whole response otherwise; trimmed.
Candidate(t) == Strip(IF HasBlock(t) THEN BlockContent(t) ELSE t)

\* C5 as stated: after the strict parse of the block's content fails, the
\* full trimmed response is parsed (step b) before the bracket steps.
C5_ChainWithFullRetry ==
    (jstatus = "done" /\ text # <<>>) =>
        ext_data = IF Loads(Candidate(text)).ok THEN Loads(Candidate(text)).val
                   ELSE IF Loads(Strip(text)).ok THEN Loads(Strip(text)).val
                   ELSE BracketSteps(Candidate(text))

\* C5 (amended): the chain runs on one text only, the trimmed content of
\* the first fenced block if the response has one and the trimmed response
\* otherwise: strict parse, then strict parse of its outermost bracket
\* substring, then the permissive parse of that substring, else None.  A
\* response with a fenced block is never parsed as a whole.
C5_RecoveryChain ==
    jstatus = "done" =>
        ext_data = IF text = <<>> THEN None
                   ELSE IF Loads(Candidate(text)).ok
                   THEN Loads(Candidate(text)).val
                   ELSE BracketSteps(Candidate(text))

\* The whole response is valid JSON, its fenced block's content cannot be
\* parsed, and nothing was recovered.
C5_Witness ==
    /\ jstatus = "done"
    /\ HasBlock(text)
    /\ Loads(Strip(text)).ok
    /\ ~Loads(Candidate(text)).ok
    /\ ext_data = None

\* C6: a response without any bracket character yields None.
C6_NoBracketsGivesNone ==
    (jstatus = "done" /\ Openers(text) = {} /\ Closers(text) = {}) =>
        ext_data = None

---------------------------------------------------------------------------
(* Properties of GET /generate and enrich_df *)

\* The recovered structure is not a dict holding a list under item_id
\* (None, when nothing was recovered, included).
NoItemIdArray(ext) ==
    \/ ext.t # "dict"
    \/ "item_id" \notin Keys(ext)
    \/ Get(ext, "item_id").t # "list"

\* C7: an invocation of /generate whose model reply yields no structure, or
\* a structure without an item_id array, answers with a failure status and
\* leaves the tables area exactly as it was.
C7_NoItemIdNothingWritten ==
    [][(glast'.reached /\ NoItemIdArray(glast'.ext)) =>
           (glast'.status >= 400 /\ tables' = tables)]_vars

\* Nothing was recovered from the reply: failure, and no table exists.
C7_Witness ==
    /\ glast.reached
    /\ glast.ext = None
    /\ glast.status = 500
    /\ tables = <<>>

\* The value the enrichment is said to carry for a field: the cell of the
\* first row of the chunk table whose cell is not null, if there is one.
ClaimedMeta(df, c) ==
    LET series == IF c \in Keys(df) THEN Get(df, c).v ELSE <<>>
        filled == {i \in 1..Len(series) : series[i] # None}
    IN  IF filled = {} THEN None ELSE series[Min(filled)]

\* C8: after a successful /generate, each of the six metadata columns of
\* the written table holds, on every row, the first non-null value of that
\* column in the chunk table (whatever the model output had under that
\* key), and every other column is the balanced model output's column.
C8_EnrichBroadcast ==
    glast.status = 200 =>
        LET df == results[glast.src]
            bal == balance_lists_by_item_id(glast.ext).value
            out == tables[glast.out]
        IN  /\ Keys(out) = Keys(bal) \cup Range(meta_cols)
            /\ \A c \in Range(meta_cols) :
                  Get(out, c) = List([i \in 1..NRows(bal) |-> ClaimedMeta(df, c)])
            /\ \A i \in 1..Len(bal.v) :
                  bal.v[i].s \notin Range(meta_cols) => out.v[i] = bal.v[i]

\* The chunk table's page column is [None, "3"], the model output has its
\* own page column, and both generated rows carry "3".
C8_Witness ==
    /\ glast.status = 200
    /\ "page" \in Keys(results[glast.src])
    /\ Get(results[glast.src], "page") = List(<<None, Str("3")>>)
    /\ "page" \in Keys(glast.ext)
    /\ Get(tables[glast.out], "page") = List(<<Str("3"), Str("3")>>)

---------------------------------------------------------------------------
(* Properties of GET /extract *)

\* The rows a chunk is said to give: its groundings, or one without any.
ClaimedRows(chunk) ==
    IF Len(chunk.grounding.v) >= 1 THEN Len(chunk.grounding.v) ELSE 1

\* The rows said to precede those of the i-th chunk.
RECURSIVE RowsBefore(_, _)
RowsBefore(cs, i) ==
    IF i <= 1 THEN 0 ELSE RowsBefore(cs, i - 1) + ClaimedRows(cs[i - 1])

\* C9: the chunk table a successful /extract writes has max(G, 1) rows for
\* each chunk with G groundings, in chunk order, and every row of the i-th
\* chunk carries that chunk's id and the number i.
C9_RowPerGrounding ==
    elast.status = 200 =>
        LET out == results[elast.out]
            cs == elast.chunks
        IN  /\ NRows(out) = RowsBefore(cs, Len(cs) + 1)
            /\ \A i \in 1..Len(cs) :
                 \A j \in (RowsBefore(cs, i) + 1)..RowsBefore(cs, i + 1) :
                    /\ Get(out, "chunk").v[j] = Num(ToString(i))
                    /\ Get(out, "chunk_id").v[j] = cs[i].chunk_id

\* A chunk with two groundings followed by one without any: three rows.
C9_Witness ==
    /\ elast.status = 200
    /\ Len(elast.chunks) = 2
    /\ Len(elast.chunks[1].grounding.v) = 2
    /\ Len(elast.chunks[2].grounding.v) = 0
    /\ Get(results[elast.out], "chunk").v = <<Num("1"), Num("1"), Num("2")>>

\* C10: every row of every chunk table in the results area has a
\* clean_text that is neither null nor the empty string.
C10_CleanTextComplete ==
    \A name \in DOMAIN results :
        \A r \in 1..NRows(results[name]) :
            /\ Get(results[name], "clean_text").v[r] # None
            /\ Get(results[name], "clean_text").v[r] # Str("")

---------------------------------------------------------------------------
(* Properties of GET /split *)

\* The step in which a /split invocation ends with success.
SplitSucceeds == spl.pc = "writing" /\ spl'.pc = "done" /\ spl'.status = 200

\* name is a page file of the document with base name B.
IsPageOf(name, B) ==
    /\ Len(name) = Len(B) + 3
    /\ SubSeq(name, 1, Len(B)) = B
    /\ name[Len(B) + 1] = "_page_"
    /\ name[Len(name)] = ".pdf"

\* What every successful /split leaves behind: the N page files with the
\* pages in order, the count N, and the document in the archive only.
SplitOutputs ==
    [][SplitSucceeds =>
          LET B == Stem(spl.input)
              doc == files[spl.input]
          IN  /\ spl'.num_pages = doc.n
              /\ \A i \in 1..doc.n :
                    /\ PageName(B, i - 1) \in DOMAIN pages'
                    /\ pages'[PageName(B, i - 1)] = PageOf(doc, i)
              /\ spl.input \notin DOMAIN files'
              /\ spl.filename \notin DOMAIN files'
              /\ ArchiveName(B) \in DOMAIN archive'
              /\ archive'[ArchiveName(B)] = doc]_vars

\* C11: after a successful /split of an N-page document with base name B
\* the pages area holds exactly the page files B_page_1 .. B_page_N of it,
\* page i in file i, N is reported, and the document has left the incoming
\* area for the archive.
C11_SplitExactlyN ==
    [][SplitSucceeds =>
          LET B == Stem(spl.input)
              doc == files[spl.input]
          IN  /\ spl'.num_pages = doc.n
              /\ \A i \in 1..doc.n :
                    /\ PageName(B, i - 1) \in DOMAIN pages'
                    /\ pages'[PageName(B, i - 1)] = PageOf(doc, i)
              /\ \A name \in DOMAIN pages' :
                    IsPageOf(name, B) =>
                        \E i \in 1..doc.n : name = PageName(B, i - 1)
              /\ spl.input \notin DOMAIN files'
              /\ ArchiveName(B) \in DOMAIN archive'
              /\ archive'[ArchiveName(B)] = doc]_vars

\* C12: a /split invoked for a document whose first page file already
\* exists is refused instead of being started, and no existing page file
\* is ever overwritten with other content.
C12_DuplicateRefused ==
    [][/\ (spl.pc # "writing" /\ spl'.pc = "writing") =>
              PageName(Stem(spl'.input), 0) \notin DOMAIN pages
       /\ \A name \in DOMAIN pages :
              name \in DOMAIN pages' /\ pages'[name] = pages[name]]_vars

---------------------------------------------------------------------------
(* Properties of the stages' handling of their input *)

\* C13: once an /extract invocation has succeeded, the page file it
\* consumed is no longer in the pages area.
C13_InputConsumed ==
    elast.status = 200 => elast.filename \notin DOMAIN pages

\* All page files of the document doc with base name B are written.
PagesWritten(area, B, doc) ==
    \A i \in 1..doc.n :
        /\ PageName(B, i - 1) \in DOMAIN area
        /\ area[PageName(B, i - 1)] = PageOf(doc, i)

\* C14: the document of a /split invocation leaves the incoming area only
\* in a step after which all its page files are written, and an invocation
\* that fails or stops part-way leaves the document in the incoming area
\* as it was.
C14_CleanupOrdering ==
    [][spl.pc = "writing" =>
          /\ spl.input \in DOMAIN files
          /\ spl.input \notin DOMAIN files' =>
                 PagesWritten(pages', Stem(spl.input), files[spl.input])
          /\ (spl'.pc \in {"done", "crashed"} /\ spl'.status # 200) =>
                 /\ spl.input \in DOMAIN files'
                 /\ files'[spl.input] = files[spl.input]]_vars

\* A /split stopped after the first of two pages: the document is still
\* in the incoming area.
C14_Witness ==
    /\ spl.pc = "crashed"
    /\ spl.written = 1
    /\ spl.num_pages = 2
    /\ spl.input \in DOMAIN files
    /\ PageName(Stem(spl.input), 1) \notin DOMAIN pages

---------------------------------------------------------------------------
(* Properties of GET /insert *)

\* C15: at every point of an /insert invocation the destination table
\* holds the rows it held before, plus either none or all of the rows of
\* the input table: all of them once the invocation has answered 200 with
\* their number, none of them while it runs, after it failed and after it
\* stopped.
C15_LoaderAtomic ==
    ins.pc # "idle" =>
        /\ db \in {ins.before, ins.before \o ins.rows}
        /\ (ins.pc = "done" /\ ins.status = 200) =>
              /\ db = ins.before \o ins.rows
              /\ ins.rows_inserted = NRows(tables[ins.src])
              /\ Len(ins.rows) = NRows(tables[ins.src])
        /\ ~(ins.pc = "done" /\ ins.status = 200) => db = ins.before

\* The second of two rows failed: 500, and the first row is not there.
C15_Witness ==
    /\ ins.pc = "done"
    /\ ins.status = 500
    /\ ins.done = 1
    /\ Len(ins.rows) = 2
    /\ db = ins.before

\* C16: every cell of the input table that holds an empty or
\* whitespace-only string is inserted as "NULL" and every other cell as it
\* is; item_id and page are inserted as item and page_number, every other
\* column under its own name, in the table's column order.
C16_RowPreparation ==
    ins.pc = "executing" =>
        LET tbl == tables[ins.src]
        IN  /\ ins.cols = [j \in 1..Len(tbl.v) |->
                              IF tbl.v[j].s = "item_id" THEN "item"
                              ELSE IF tbl.v[j].s = "page" THEN "page_number"
                              ELSE tbl.v[j].s]
            /\ \A r \in 1..NRows(tbl), j \in 1..Len(tbl.v) :
                  LET cell == tbl.v[j].v[1].v[r]
                  IN  ins.rows[r].vals[j] =
                          IF cell \in {Str(""), Str(" "), Str(" \n")}
                          THEN Str("NULL") ELSE cell

---------------------------------------------------------------------------
(* Properties of the handlers' status codes *)

\* C17: /generate answers 400 to a missing file name and to a name outside
\* the results area, 415 to a file of the results area that is not an
\* .xlsx file, and 500 only to unexpected errors.
C17_StatusMapping ==
    glast.status # 0 =>
        /\ (glast.filename = <<>> \/ Outside(glast.filename)) =>
              glast.status = 400
        /\ (/\ glast.filename # <<>>
            /\ ~Outside(glast.filename)
            /\ glast.filename \in DOMAIN results
            /\ Lower(Suffix(glast.filename)) # ".xlsx") =>
              glast.status = 415

---------------------------------------------------------------------------
(* Properties of the file-name helpers *)

C19_OutputKey ==
    LET f == elast.filename
        n == Len(f)
    IN  (/\ elast.status = 200
         /\ n >= 4
         /\ f[n - 2] = "_page_"
         /\ f[n - 1] \in Digits
         /\ Lower(f[n]) = ".pdf") =>
            /\ elast.out = SubSeq(f, 1, n - 3) \o <<"_page_", f[n - 1], ".xlsx">>
            /\ elast.out \in DOMAIN results
            /\ \A r \in 1..NRows(results[elast.out]) :
                   Get(results[elast.out], "page").v[r] = Str(f[n - 1])

---------------------------------------------------------------------------
(* Properties of concurrent invocations *)

\* The writes of invocation i recorded in the log.
WritesOf(i) ==
    {k \in 1..Len(race.log) : race.log[k].inv = i /\ race.log[k].op = "write"}

\* C20: nothing coordinates two invocations of /extract: an invocation
\* can always pass its checks, whatever the other one is doing, and two
\* invocations that succeed on the same page have both written the same
\* output path.
C20_NoCoordination ==
    race # <<>> =>
        /\ \A i \in Invocations : race.pc[i] = "idle" => ENABLED RaceCheck(i)
        /\ \A i, j \in Invocations :
              (/\ i # j
               /\ race.status[i] = 200
               /\ race.status[j] = 200
               /\ race.filename[i] = race.filename[j]) =>
                  /\ WritesOf(i) # {}
                  /\ WritesOf(j) # {}
                  /\ \A a \in WritesOf(i), b \in WritesOf(j) :
                        race.log[a].path = race.log[b].path

\* Both invocations passed the checks before either wrote, both wrote the
\* same path, and the workbook of the first writer is lost.
C20_Witness ==
    /\ race # <<>>
    /\ Len(race.log) = 4
    /\ race.log[1].op = "check" /\ race.log[2].op = "check"
    /\ race.log[3].op = "write" /\ race.log[4].op = "write"
    /\ race.log[3].inv # race.log[4].inv
    /\ race.log[3].path = race.log[4].path
    /\ race.chunks[1] # race.chunks[2]
    /\ race.results[race.log[4].path] = RaceFrame(race.log[4].inv)
    /\ race.results[race.log[4].path] # RaceFrame(race.log[3].inv)

=============================================================================
